---------------------------- MODULE Spec2Model ----------------------------
(***************************************************************************)
(* Model of the hybrid search engine of backend/hybrid_search.py:          *)
(* BM25 lexical index, local vector store with its on-disk cache,          *)
(* reciprocal rank fusion, the LLM re-ranker and the HybridSearchEngine    *)
(* that orchestrates them (initialize / search as asyncio coroutines).     *)
(*                                                                         *)
(* Conventions.                                                            *)
(*  - A Python dict is a TLA+ function whose domain is its set of keys.    *)
(*  - A Python list is a sequence; document indices stay 0-based as in the *)
(*    code, so documents[doc_idx] of the code is documents[doc_idx + 1].   *)
(*  - A text is a sequence of space separated raw words; an identifier     *)
(*    (kode_kbli) is a sequence of characters.                             *)
(*  - A float that the code only adds and compares is kept exact: fusion   *)
(*    scores are reduced fractions <<num, den>>, BM25 scores are fixed     *)
(*    point numbers in millionths.                                         *)
(***************************************************************************)
EXTENDS Integers, Sequences, FiniteSets, TLC

(***************************************************************************)
(* Bounds of the model.                                                    *)
(***************************************************************************)
\* largest top_k a caller of the engine passes
MaxTopK == 2
\* largest retrieval_top_k a caller of the engine passes
MaxRetrievalK == 2
\* document indices of the ranked lists handed to the fusion alone: 0..MaxDocId
MaxDocId == 2
\* longest ranked list handed to the fusion alone
MaxListLen == 2
\* largest number of ranked lists handed to the fusion alone
MaxLists == 2

(***************************************************************************)
(* Generic helpers: Python slices, dict operations, stable sorting.        *)
(***************************************************************************)
Min(a, b) == IF a < b THEN a ELSE b

\* seq[:n] for n >= 0
Take(seq, n) == SubSeq(seq, 1, Min(n, Len(seq)))

Range(seq) == {seq[i] : i \in DOMAIN seq}

\* the list f[1], ..., f[n] of a function f on 1..n, with every element
\* evaluated (a list comprehension builds its list at once)
List(f) == SubSeq(f, 1, Len(f))

\* d.get(key, default)
DictGet(d, key, default) == IF key \in DOMAIN d THEN d[key] ELSE default

\* d[key] = val on a copy of d
DictSet(d, key, val) ==
    [x \in (DOMAIN d) \cup {key} |-> IF x = key THEN val ELSE d[x]]

\* d.pop(key, None) on a copy of d
DictPop(d, key) == [x \in (DOMAIN d) \ {key} |-> d[x]]

\* The stable sort of seq in descending key order: greater holds the pairs
\* <<i, j>> of positions such that the key of seq[i] is strictly greater than
\* the key of seq[j].  Elements with equal keys keep their order, as
\* list.sort / sorted do with reverse=True.
StableSortDesc(seq, greater) ==
    LET n == Len(seq)
        pos(i) == 1 + Cardinality({j \in 1..n :
                        \/ <<j, i>> \in greater
                        \/ (<<i, j>> \notin greater /\ j < i)})
    IN  List([p \in 1..n |-> seq[CHOOSE i \in 1..n : pos(i) = p]])

\* the pairs of positions of a list
Pairs(seq) == (DOMAIN seq) \X (DOMAIN seq)

(***************************************************************************)
(* Exact arithmetic on non-negative fractions <<num, den>>, den > 0.       *)
(* The code adds a few floats 1.0/(k+rank+1), one per ranked list (search  *)
(* passes two lists), and compares the sums; distinct sums of that shape   *)
(* differ by far more than a float rounding error, and float addition is   *)
(* commutative, so the order and the equalities of the floats are those of *)
(* the exact fractions.                                                    *)
(***************************************************************************)
RECURSIVE GCD(_, _)
GCD(a, b) == IF b = 0 THEN a ELSE GCD(b, a % b)

RatNorm(r) == LET g == GCD(r[1], r[2]) IN <<r[1] \div g, r[2] \div g>>

RatAdd(a, b) == RatNorm(<<a[1] * b[2] + b[1] * a[2], a[2] * b[2]>>)

\* a < b, by the continued fraction expansions (no product that can overflow)
RECURSIVE RatLess(_, _)
RatLess(a, b) ==
    LET qa == a[1] \div a[2]
        qb == b[1] \div b[2]
        ra == a[1] % a[2]
        rb == b[1] % b[2]
    IN  IF qa # qb THEN qa < qb
        ELSE IF rb = 0 THEN FALSE
        ELSE IF ra = 0 THEN TRUE
        ELSE RatLess(<<b[2], rb>>, <<a[2], ra>>)

RECURSIVE SumSeq(_)
SumSeq(s) == IF s = <<>> THEN 0 ELSE s[1] + SumSeq(Tail(s))

\* Faulty variant of DedupFirst (sensitivity of C8): nothing is removed
KeepAll(s) == s

\* the elements of s without repetition, each at its first occurrence
RECURSIVE DedupFirst(_)
DedupFirst(s) ==
    IF s = <<>> THEN <<>>
    ELSE LET r == DedupFirst(SubSeq(s, 1, Len(s) - 1))
             x == s[Len(s)]
         IN  IF x \in Range(r) THEN r ELSE Append(r, x)

(***************************************************************************)
(* Tokenizer (BM25._tokenize).  A raw word is a maximal run of non-space   *)
(* characters; the regex \b[a-z0-9]+\b finds one token in an alphanumeric  *)
(* word and none in a word of punctuation.                                 *)
(***************************************************************************)
\* str.lower() on one raw word
lower(w) ==
    CASE w = "Perdagangan" -> "perdagangan"
      [] w = "Eceran"      -> "eceran"
      [] w = "Makanan"     -> "makanan"
      [] w = "Minuman"     -> "minuman"
      [] w = "Restoran"    -> "restoran"
      [] w = "Industri"    -> "industri"
      [] w = "Roti"        -> "roti"
      [] w = "A"           -> "a"
      [] OTHER             -> w

\* lowered words in which [a-z0-9]+ matches nothing
Punctuation == {"&", "-"}

\* lowered words of one character: len(t) > 1 fails
OneChar == {"a", "5"}

tokenize(text) ==
    IF text = <<>> THEN <<>>
    ELSE LET lowered == List([i \in DOMAIN text |-> lower(text[i])])
             keep(t) == t \notin Punctuation /\ t \notin OneChar
         IN  SelectSeq(lowered, keep)

\* " ".join(str(doc.get(f, "")) for f in text_fields)
RECURSIVE combined_text(_, _)
combined_text(doc, text_fields) ==
    IF text_fields = <<>> THEN <<>>
    ELSE DictGet(doc, Head(text_fields), <<>>)
            \o combined_text(doc, Tail(text_fields))

(***************************************************************************)
(* BM25                                                                    *)
(***************************************************************************)
\* k1 = 1.5 = K1Num / K1Den and b = 0.75 = BNum / BDen
K1Num == 3
K1Den == 2
BNum == 3
BDen == 4

BM25Fields == <<"judul", "hierarki", "cakupan">>

\* round(10^6 * ln(p / q)) for the arguments that corpora of up to four
\* documents give; ln of anything else is not needed and left undefined.
LnMicro(p, q) ==
    CASE <<p, q>> = <<4, 3>>  -> 287682
      [] <<p, q>> = <<6, 3>>  -> 693147
      [] <<p, q>> = <<6, 5>>  -> 182322
      [] <<p, q>> = <<8, 3>>  -> 980829
      [] <<p, q>> = <<8, 5>>  -> 470004
      [] <<p, q>> = <<8, 7>>  -> 133531
      [] <<p, q>> = <<10, 3>> -> 1203973
      [] <<p, q>> = <<10, 5>> -> 693147
      [] <<p, q>> = <<10, 7>> -> 356675
      [] <<p, q>> = <<10, 9>> -> 105361

\* math.log((corpus_size - df + 0.5) / (df + 0.5) + 1), in millionths:
\* (N - df + 0.5)/(df + 0.5) + 1 = (2N + 2)/(2df + 1)
idf_of(corpus_size, df) == LnMicro(2 * corpus_size + 2, 2 * df + 1)

\* BM25.__init__
BM25New ==
    [corpus_size |-> 0, avgdl |-> <<0, 1>>, doc_freqs |-> <<>>, idf |-> <<>>,
     doc_len |-> <<>>, documents |-> <<>>, original_docs |-> <<>>]

\* BM25.fit: the index state after fitting `documents`
fit(documents, text_fields) ==
    LET toks == List([i \in DOMAIN documents |->
                        tokenize(combined_text(documents[i], text_fields))])
        lens == List([i \in DOMAIN documents |-> Len(toks[i])])
        n == Len(documents)
        terms == UNION {Range(toks[i]) : i \in DOMAIN toks}
        df == [t \in terms |->
                 Cardinality({i \in DOMAIN toks : t \in Range(toks[i])})]
    IN  [corpus_size |-> n,
         avgdl |-> IF n > 0 THEN <<SumSeq(lens), n>> ELSE <<0, 1>>,
         doc_freqs |-> df,
         idf |-> [t \in terms |-> idf_of(n, df[t])],
         doc_len |-> lens,
         documents |-> toks,
         original_docs |-> documents]

\* Counter(doc_tokens).get(term, 0)
term_freq(doc_tokens, term) ==
    Cardinality({i \in DOMAIN doc_tokens : doc_tokens[i] = term})

\* One term's summand of BM25._score_document, in millionths:
\*   idf * tf*(k1+1) / (tf + k1*(1 - b + b*doc_len/avgdl))
\* with the fraction scaled by K1Den*BDen*avgdl[1]; avgdl = avgdl[1]/avgdl[2].
term_score(bm, term, doc_tokens, doc_len) ==
    LET tf == term_freq(doc_tokens, term)
        s == bm.avgdl[1]
        n == bm.avgdl[2]
        numerator == tf * (K1Num + K1Den) * BDen * s
        denominator == tf * K1Den * BDen * s
                         + K1Num * ((BDen - BNum) * s + BNum * doc_len * n)
    IN  IF term \notin DOMAIN bm.idf THEN 0
        ELSE IF tf = 0 THEN 0
        ELSE (bm.idf[term] * numerator) \div denominator

\* Faulty variant of score_divides_by_zero (sensitivity of C30): the
\* division is evaluated for every query term, before the tests of lines
\* 123 and 127
divides_for_every_term(bm, query_tokens, doc_tokens) ==
    query_tokens # <<>> /\ bm.avgdl[1] = 0

\* doc_len / self.avgdl raises ZeroDivisionError: reached for a term of the
\* index that the document holds while avgdl is 0
score_divides_by_zero(bm, query_tokens, doc_tokens) ==
    \E i \in DOMAIN query_tokens :
        /\ query_tokens[i] \in DOMAIN bm.idf
        /\ term_freq(doc_tokens, query_tokens[i]) > 0
        /\ bm.avgdl[1] = 0

\* BM25._score_document
score_document(bm, query_tokens, doc_tokens, doc_len) ==
    SumSeq(List([i \in DOMAIN query_tokens |->
                    term_score(bm, query_tokens[i], doc_tokens, doc_len)]))

\* Faulty variant of bm25_search (sensitivity of C18): without the test
\* score > 0 of line 109
bm25_search_unfiltered(bm, query, top_k) ==
    LET query_tokens == tokenize(query)
        n == Len(bm.documents)
        scores == List([i \in 1..n |->
                     <<i - 1, score_document(bm, query_tokens,
                                             bm.documents[i], bm.doc_len[i])>>])
        higher == {p \in Pairs(scores) : scores[p[1]][2] > scores[p[2]][2]}
    IN  IF query_tokens = <<>> THEN <<>>
        ELSE Take(StableSortDesc(scores, higher), top_k)

\* Faulty variant of bm25_search (sensitivity of C19): a lexical branch that
\* finds nothing
no_lexical_results(bm, query, top_k) == <<>>

\* BM25.search: (doc_index, score) pairs, best first
bm25_search(bm, query, top_k) ==
    LET query_tokens == tokenize(query)
        n == Len(bm.documents)
        all == List([i \in 1..n |->
                  <<i - 1, score_document(bm, query_tokens,
                                          bm.documents[i], bm.doc_len[i])>>])
        positive(e) == e[2] > 0
        scores == SelectSeq(all, positive)
        higher == {p \in Pairs(scores) : scores[p[1]][2] > scores[p[2]][2]}
    IN  IF query_tokens = <<>> THEN <<>>
        ELSE Take(StableSortDesc(scores, higher), top_k)

\* BM25.search raises (ZeroDivisionError out of _score_document)
bm25_search_raises(bm, query) ==
    LET query_tokens == tokenize(query)
    IN  /\ query_tokens # <<>>
        /\ \E i \in DOMAIN bm.documents :
              score_divides_by_zero(bm, query_tokens, bm.documents[i])

(***************************************************************************)
(* Reciprocal rank fusion                                                  *)
(***************************************************************************)
\* the k of reciprocal_rank_fusion (its default, and what search passes)
RRF_K == 60

\* every (doc_id, rank) met by the two nested loops, in loop order
RECURSIVE rrf_scan(_)
rrf_scan(rankings) ==
    IF rankings = <<>> THEN <<>>
    ELSE LET ranking == Head(rankings)
         IN  List([i \in 1..Len(ranking) |-> <<ranking[i][1], i - 1>>])
                \o rrf_scan(Tail(rankings))

\* Faulty variant of rrf_term (sensitivity of C7): the rank taken as if
\* enumerate counted from zero and the formula wanted no + 1
rrf_term_without_one(k, rank) == <<1, k + rank>>

\* 1.0 / (k + rank + 1), the value one list position adds
rrf_term(k, rank) == <<1, k + rank + 1>>

\* rrf_scores[doc_id] once the loops are over
RECURSIVE rrf_scores(_, _, _)
rrf_scores(scan, doc_id, k) ==
    IF scan = <<>> THEN <<0, 1>>
    ELSE LET before == rrf_scores(SubSeq(scan, 1, Len(scan) - 1), doc_id, k)
             e == scan[Len(scan)]
         IN  IF e[1] = doc_id THEN RatAdd(before, rrf_term(k, e[2]))
             ELSE before

\* Faulty variant of reciprocal_rank_fusion (sensitivity of C9): the raw
\* scores of a document are added up instead of its reciprocal ranks
raw_score_fusion(rankings, k) ==
    LET entries == IF rankings = <<>> THEN <<>>
                   ELSE Head(rankings)
                           \o (IF Len(rankings) > 1 THEN rankings[2] ELSE <<>>)
        ids == DedupFirst(List([i \in DOMAIN entries |-> entries[i][1]]))
        total(doc_id) ==
            SumSeq(List([i \in DOMAIN entries |->
                            IF entries[i][1] = doc_id THEN entries[i][2]
                            ELSE 0]))
        items == List([i \in DOMAIN ids |-> <<ids[i], <<total(ids[i]), 1>>>>])
        higher == {p \in Pairs(items) : items[p[1]][2][1] > items[p[2]][2][1]}
    IN  StableSortDesc(items, higher)

\* Faulty variant of reciprocal_rank_fusion (sensitivity of C27): documents
\* of equal score come out in the reverse of the order in which they were met
fusion_ties_reversed(rankings, k) ==
    LET scan == rrf_scan(rankings)
        ids == DedupFirst(List([i \in DOMAIN scan |-> scan[i][1]]))
        items == List([i \in DOMAIN ids |->
                          <<ids[Len(ids) + 1 - i],
                            rrf_scores(scan, ids[Len(ids) + 1 - i], k)>>])
        higher == {p \in Pairs(items) :
                      RatLess(items[p[2]][2], items[p[1]][2])}
    IN  StableSortDesc(items, higher)

\* reciprocal_rank_fusion: (doc_id, rrf_score) pairs, the dict's items (in
\* insertion order) sorted by score, descending, stably
reciprocal_rank_fusion(rankings, k) ==
    LET scan == rrf_scan(rankings)
        ids == DedupFirst(List([i \in DOMAIN scan |-> scan[i][1]]))
        items == List([i \in DOMAIN ids |->
                          <<ids[i], rrf_scores(scan, ids[i], k)>>])
        higher == {p \in Pairs(items) :
                      RatLess(items[p[2]][2], items[p[1]][2])}
    IN  StableSortDesc(items, higher)


(***************************************************************************)
(* Embeddings.  A vector is a direction (a multiple of a quarter turn) and *)
(* a length; the embedding provider is an external service.                *)
(***************************************************************************)
\* the cosine of d quarter turns
Cos(d) == CASE d % 4 = 0 -> 1
            [] d % 4 = 2 -> -1
            [] OTHER     -> 0

\* v / (norm(v) + 1e-10): a unit vector, and the zero vector stays zero
normalize(v) == [dir |-> v.dir, mag |-> IF v.mag = 0 THEN 0 ELSE 1]

\* np.dot of two normalized vectors
dot(u, v) == u.mag * v.mag * Cos(u.dir - v.dir + 4)

VectorFields == <<"judul", "cakupan">>

\* What client.embeddings.create answers for a document text when it
\* succeeds: the provider is taken to be a function of the text.
provider_embedding(text) ==
    IF text = <<>> THEN [dir |-> 3, mag |-> 1]
    ELSE CASE text[1] = "Perdagangan" -> [dir |-> 0, mag |-> 2]
           [] text[1] = "Makanan"     -> [dir |-> 0, mag |-> 1]
           [] text[1] = "Restoran"    -> [dir |-> 1, mag |-> 1]
           [] text[1] = "Industri"    -> [dir |-> 2, mag |-> 3]
           [] OTHER                   -> [dir |-> 3, mag |-> 1]

\* build_index, lines 241-253: the normalized matrix, one row per document
build_embeddings(documents, text_fields) ==
    List([i \in DOMAIN documents |->
        normalize(provider_embedding(combined_text(documents[i],
                                                   text_fields)))])

\* np.argsort(similarities)[::-1]: 0-based row indices by descending
\* similarity.  On up to 16 rows argsort sorts by insertion, which is
\* stable, so among equal similarities the larger index comes first after
\* the reversal; on more rows the order among equal similarities is the
\* library's choice, and nothing stated about the large corpus depends on it.
argsort_reversed(similarities) ==
    LET n == Len(similarities)
        backwards == List([i \in 1..n |-> n - i])
        higher == {p \in Pairs(backwards) :
                      similarities[backwards[p[1]] + 1] >
                          similarities[backwards[p[2]] + 1]}
    IN  StableSortDesc(backwards, higher)

\* LocalVectorStore.search once the query embedding has arrived
vector_search(embeddings, query_embedding, top_k) ==
    LET q == normalize(query_embedding)
        similarities ==
            List([i \in DOMAIN embeddings |-> dot(embeddings[i], q)])
        top_indices == Take(argsort_reversed(similarities), top_k)
    IN  List([i \in DOMAIN top_indices |->
                 <<top_indices[i], similarities[top_indices[i] + 1]>>])

\* LocalVectorStore.__init__
VectorStoreNew == [embeddings |-> <<>>, documents |-> <<>>, is_ready |-> FALSE]

(***************************************************************************)
(* Semantic re-ranker.  A judge response is                                *)
(*   [call |-> "error"]                          the request failed        *)
(*   [call |-> "ok", fence |-> f, body |-> b]    a completion text         *)
(* where f says whether the text holds a closed ``` fence, an unclosed one *)
(* or none, and b is what json.loads meets inside: a text that is no JSON, *)
(* a JSON array, or a JSON object (a dict, with "rankings" or without).    *)
(* A ranking entry is a dict; its "index" is [t |-> "int", v |-> n] or a   *)
(* value of another JSON type; its "relevance" is a number in hundredths.  *)
(***************************************************************************)
\* candidates[:15]
RerankLimit == 15

IntVal(n) == [t |-> "int", v |-> n]
StrVal == [t |-> "str", v |-> 0]

\* lines 403-412: TRUE when an exception leaves the parsing of the response
judge_parse_fails(resp) ==
    \/ resp.call = "error"
    \/ resp.fence = "open"           \* json.loads of a text that holds ```
    \/ resp.body.kind = "text"       \* json.JSONDecodeError
    \/ resp.body.kind = "array"      \* list has no .get

\* result.get("rankings", [])
judge_rankings(resp) == DictGet(resp.body, "rankings", <<>>)

\* r.get("index", 1) - 1 raises TypeError for an index that is no number
entry_raises(r) == DictGet(r, "index", IntVal(1)).t # "int"

\* lines 415-422: the candidates picked by the entries, in the entries' order
RECURSIVE map_rankings(_, _)
map_rankings(entries, candidates) ==
    IF entries = <<>> THEN <<>>
    ELSE LET r == Head(entries)
             idx == DictGet(r, "index", IntVal(1)).v - 1
             candidate ==
                 DictSet(DictSet(candidates[idx + 1], "relevance_score",
                                 DictGet(r, "relevance", 0)),
                         "reasoning", DictGet(r, "reason", ""))
             rest == map_rankings(Tail(entries), candidates)
         IN  IF 0 <= idx /\ idx < Len(candidates)
             THEN <<candidate>> \o rest
             ELSE rest

\* TRUE when rerank sends a request to the judge
rerank_calls_judge(candidates) == candidates # <<>>

\* TRUE when rerank ends in its except branch
rerank_falls_back(candidates, top_k, resp) ==
    /\ candidates # <<>>
    /\ \/ judge_parse_fails(resp)
       \/ \E i \in DOMAIN Take(judge_rankings(resp), top_k) :
             entry_raises(judge_rankings(resp)[i])

\* the candidates that the except branch returns: candidates[:top_k] of the
\* list that line 354 has already cut
fallback_candidates(capped, top_k) == Take(capped, top_k)

\* Faulty variant of rerank (sensitivity of C28): without the cut of line 354
rerank_uncapped(candidates, top_k, resp) ==
    IF candidates = <<>> THEN <<>>
    ELSE IF rerank_falls_back(candidates, top_k, resp)
    THEN fallback_candidates(candidates, top_k)
    ELSE map_rankings(Take(judge_rankings(resp), top_k), candidates)

\* SemanticReranker.rerank, given the judge's response
rerank(candidates, top_k, resp) ==
    LET capped == Take(candidates, RerankLimit)
    IN  IF candidates = <<>> THEN <<>>
        ELSE IF rerank_falls_back(candidates, top_k, resp)
        THEN fallback_candidates(capped, top_k)
        ELSE map_rankings(Take(judge_rankings(resp), top_k), capped)

(***************************************************************************)
(* Documents, corpora, queries and judge responses of the model.           *)
(***************************************************************************)
Digits == {"0", "1", "2", "3", "4", "5", "6", "7", "8", "9"}
DigitChar == <<"0", "1", "2", "3", "4", "5", "6", "7", "8", "9">>

Doc47111 == [kode_kbli |-> <<"4", "7", "1", "1", "1">>,
             judul |-> <<"Perdagangan", "Eceran", "Makanan">>]
Doc56101 == [kode_kbli |-> <<"5", "6", "1", "0", "1">>,
             judul |-> <<"Restoran">>]
\* a second entry of the source data with the code 47111
Doc47111Dup == [kode_kbli |-> <<"4", "7", "1", "1", "1">>,
                judul |-> <<"Makanan", "&", "Minuman">>,
                cakupan |-> <<"jual", "makanan">>]
\* a four digit group code, not a KBLI class
DocGroup == [kode_kbli |-> <<"4", "7", "1", "1">>,
             judul |-> <<"jual", "makanan">>]

\* number of documents of the large corpus
BigCorpusSize == 17

\* the large corpus: distinct codes 90001.., titles without any token
BigDoc(i) == [kode_kbli |-> <<"9", "0", "0", DigitChar[(i \div 10) + 1],
                              DigitChar[(i % 10) + 1]>>,
              judul |-> <<"&">>]
CorpusBig == List([i \in 1..BigCorpusSize |-> BigDoc(i)])

CorpusPair == <<Doc47111, Doc56101>>
CorpusDup == <<Doc47111, DocGroup, Doc47111Dup, Doc56101>>
CorpusGroupOnly == <<DocGroup>>

\* a record without any text field
DocNoText == [kode_kbli |-> <<"0", "1", "1", "1", "1">>]
\* records whose identifier is missing, has a letter, or has six digits
DocNoCode == [judul |-> <<"Roti">>]
DocLetter == [kode_kbli |-> <<"4", "7", "1", "1", "A">>,
              judul |-> <<"Restoran">>]
DocSixDigits == [kode_kbli |-> <<"4", "7", "1", "1", "1", "0">>,
                 judul |-> <<"Makanan">>]
\* two entries of the code 47111 and one of 56101, among records that are no
\* KBLI class
CorpusMixed == <<DocNoCode, Doc47111Dup, DocGroup, DocLetter, Doc47111,
                 DocSixDigits, Doc56101>>

Corpora == {CorpusPair, CorpusMixed, CorpusGroupOnly}

Queries == {<<"jual", "makanan">>, <<"A", "&">>, <<>>}

\* what the provider may answer for a query text
QueryEmbeddings == {[dir |-> 0, mag |-> 1], [dir |-> 1, mag |-> 2]}

JudgeError == [call |-> "error"]
JudgeGarbage == [call |-> "ok", fence |-> "none", body |-> [kind |-> "text"]]
JudgeUnclosed ==
    [call |-> "ok", fence |-> "open",
     body |-> [kind |-> "object", rankings |-> <<>>]]
JudgeSwap ==
    [call |-> "ok", fence |-> "closed",
     body |-> [kind |-> "object",
               rankings |-> <<[index |-> IntVal(2), relevance |-> 90,
                               reason |-> "r"],
                              [index |-> IntVal(1), relevance |-> 20,
                               reason |-> "r"]>>]]
JudgeBadIndex ==
    [call |-> "ok", fence |-> "none",
     body |-> [kind |-> "object",
               rankings |-> <<[index |-> IntVal(1), relevance |-> 90],
                              [index |-> StrVal, relevance |-> 50]>>]]
\* a well-formed response that follows neither the order nor the range that
\* the prompt asks for: relevance 0.2, then 1.5
JudgeUnordered ==
    [call |-> "ok", fence |-> "none",
     body |-> [kind |-> "object",
               rankings |-> <<[index |-> IntVal(1), relevance |-> 20,
                               reason |-> "r"],
                              [index |-> IntVal(2), relevance |-> 150,
                               reason |-> "r"]>>]]

JudgeResponses ==
    {JudgeError, JudgeGarbage, JudgeUnclosed, JudgeSwap, JudgeBadIndex,
     JudgeUnordered}


(***************************************************************************)
(* State.                                                                  *)
(***************************************************************************)
VARIABLES
    documents,         \* HybridSearchEngine.documents
    is_ready,          \* HybridSearchEngine.is_ready
    bm25,              \* the BM25 object: its fields
    vector_store,      \* the LocalVectorStore: embeddings, documents, is_ready
    cache,             \* the cache file kbli_embeddings_cache.pkl on disk
    init_call,         \* the frame of the initialize call in progress, if any
    search_call,       \* the frame of the search call in progress or just over
    initialized_once,  \* history: some initialize call has completed
    fn_args,           \* the arguments of the latest call of the function or
                       \* method under study (of initialize, in the engine)
    fn_result          \* what that function returned

vars == <<documents, is_ready, bm25, vector_store, cache, init_call,
          search_call, initialized_once, fn_args, fn_result>>

\* the variables that the engine and its callers leave alone
harness == <<fn_args, fn_result>>

CacheAbsent == [state |-> "absent", embeddings |-> <<>>, documents |-> <<>>]
CacheCorrupt == [state |-> "corrupt", embeddings |-> <<>>, documents |-> <<>>]
\* a file that unpickles to a dict with 'embeddings' and without 'documents':
\* line 194 assigns, line 195 raises KeyError inside the try
CachePartial ==
    [state |-> "partial", embeddings |-> <<[dir |-> 2, mag |-> 1]>>,
     documents |-> <<>>]
InitIdle(outcome) ==
    [pc |-> "idle", documents |-> <<>>, cache_dir |-> FALSE,
     outcome |-> outcome]

NoCalls == [bm25 |-> 0, embedding |-> 0, judge |-> 0]

SearchIdle ==
    [pc |-> "idle", query |-> <<>>, top_k |-> 0, use_reranking |-> FALSE,
     retrieval_top_k |-> 0, bm25_results |-> <<>>, vector_results |-> <<>>,
     fused_ranking |-> <<>>, candidates |-> <<>>, objects |-> <<>>,
     fell_back |-> FALSE, embedding_failed |-> FALSE, calls |-> NoCalls,
     outcome |-> "none",
     error |-> "", result |-> <<>>]

\* HybridSearchEngine.__init__, with whatever cache file an earlier process
\* left behind
Init ==
    /\ documents = <<>>
    /\ is_ready = FALSE
    /\ bm25 = BM25New
    /\ vector_store = VectorStoreNew
    /\ cache \in {CacheAbsent, CacheCorrupt}
    /\ init_call = InitIdle("none")
    /\ search_call = SearchIdle
    /\ initialized_once = FALSE
    /\ fn_args = <<>>
    /\ fn_result = <<>>

(***************************************************************************)
(* HybridSearchEngine.initialize.  The coroutine runs without interruption *)
(* up to the embedding request of build_index (InitializeCall) and, if it  *)
(* got that far, from the provider's answer to its end (BuildReply,        *)
(* BuildFailure).  The batches of a large corpus are one request here: the *)
(* code changes no state between two batches.                              *)
(***************************************************************************)
\* str.isdigit() on an identifier
isdigit(code) == code # <<>> /\ \A i \in DOMAIN code : code[i] \in Digits

\* Faulty variant of valid_docs (sensitivity of C23): the test of the length
\* without the test isdigit
five_chars(docs) ==
    LET valid(d) == Len(DictGet(d, "kode_kbli", <<>>)) = 5
    IN  SelectSeq(docs, valid)

\* lines 460-463
valid_docs(docs) ==
    LET valid(d) ==
            /\ isdigit(DictGet(d, "kode_kbli", <<>>))
            /\ Len(DictGet(d, "kode_kbli", <<>>)) = 5
    IN  SelectSeq(docs, valid)

\* Faulty variant of cache_loads (sensitivity of C16): whatever the file
\* holds is taken for a cache, as without the try of lines 191-200
cache_loads_unguarded(cache_dir) == cache_dir /\ cache.state # "absent"

\* _load_cache returns True: the file exists and unpickles
cache_loads(cache_dir) == cache_dir /\ cache.state = "ok"

\* the vector store once build_index is past its cache block (lines 230-236)
store_after_load(cache_dir) ==
    IF cache_loads(cache_dir)
    THEN [embeddings |-> cache.embeddings, documents |-> cache.documents,
          is_ready |-> TRUE]
    ELSE IF cache_dir /\ cache.state = "partial"
    THEN [vector_store EXCEPT !.embeddings = cache.embeddings]
    ELSE vector_store

\* Faulty variant of cache_accepted (sensitivity of C13): no test of the
\* document count
cache_accepted_unverified(cache_dir, docs) == cache_loads(cache_dir)

\* line 234-235: build_index returns with the cached index
cache_accepted(cache_dir, docs) ==
    cache_loads(cache_dir) /\ Len(cache.documents) = Len(docs)

\* build_index from its call to its first suspension or to its end (lines
\* 226-248): the store it leaves and where it is.  "returned": line 235;
\* "value_error": no document, so no batch and no request, and np.vstack([])
\* raises ValueError; "embedding": suspended in client.embeddings.create.
build_index_start(docs, cache_dir, force_rebuild) ==
    LET try_cache == cache_dir /\ ~force_rebuild
        loaded == store_after_load(try_cache)
    IN  IF cache_accepted(try_cache, docs)
        THEN [store |-> loaded, pc |-> "returned"]
        ELSE [store |-> [loaded EXCEPT !.documents = docs],
              pc |-> IF docs = <<>> THEN "value_error" ELSE "embedding"]

\* the vector store when build_index is past line 255, the provider having
\* answered the request made for the documents of frame
index_built(frame) ==
    [embeddings |-> build_embeddings(frame.documents, VectorFields),
     documents |-> vector_store.documents, is_ready |-> TRUE]

\* Faulty variant of CacheBlob (sensitivity of C14): the last row of the
\* matrix is not written
CacheBlobCut(embeddings, docs) ==
    [state |-> "ok",
     embeddings |-> SubSeq(embeddings, 1, Len(embeddings) - 1),
     documents |-> docs]

\* pickle.dump of lines 206-210 and what pickle.load gives back from it
CacheBlob(embeddings, docs) ==
    [state |-> "ok", embeddings |-> embeddings, documents |-> docs]

\* lines 258-261: the cache file after build_index.  _save_cache writes the
\* file, or fails before it has opened it (the file is as before), or fails
\* after (the file is cut short); it swallows the exception.
cache_after_save(frame, built) ==
    IF frame.cache_dir
    THEN {CacheBlob(built.embeddings, built.documents), cache, CacheCorrupt}
    ELSE {cache}

InitializeCall(docs, cache_dir) ==
    LET valid == valid_docs(docs)
    IN  /\ init_call.pc = "idle"
        /\ documents' = valid
        /\ bm25' = fit(valid, BM25Fields)
        /\ \E started \in {build_index_start(valid, cache_dir, FALSE)} :
              /\ vector_store' = started.store
              /\ IF started.pc = "returned"
                 THEN \* initialize completes
                      /\ is_ready' = TRUE
                      /\ initialized_once' = TRUE
                      /\ init_call' = InitIdle("ok")
                 ELSE IF started.pc = "value_error"
                 THEN /\ init_call' = InitIdle("value_error")
                      /\ UNCHANGED <<is_ready, initialized_once>>
                 ELSE /\ init_call' = [pc |-> "embedding", documents |-> valid,
                                       cache_dir |-> cache_dir,
                                       outcome |-> "running"]
                      /\ UNCHANGED <<is_ready, initialized_once>>
        /\ fn_args' = docs
        /\ UNCHANGED <<cache, search_call, fn_result>>

\* the provider answered: lines 249-261, then 481
BuildReply ==
    /\ init_call.pc = "embedding"
    /\ \E built \in {index_built(init_call)} :
          /\ vector_store' = built
          /\ cache' \in cache_after_save(init_call, built)
    /\ is_ready' = TRUE
    /\ initialized_once' = TRUE
    /\ init_call' = InitIdle("ok")
    /\ UNCHANGED <<documents, bm25, search_call, harness>>

\* the provider failed: the exception leaves build_index and initialize
BuildFailure ==
    /\ init_call.pc = "embedding"
    /\ init_call' = InitIdle("provider_error")
    /\ UNCHANGED <<documents, is_ready, bm25, vector_store, cache,
                   search_call, initialized_once, harness>>


(***************************************************************************)
(* HybridSearchEngine.search.  The coroutine and its two tasks run in      *)
(* these uninterrupted pieces:                                             *)
(*   SearchCall         lines 503-511: the readiness test, create_task     *)
(*                      twice, then suspended in gather                    *)
(*   RunRetrievalTasks  the event loop runs bm25_task to its end and       *)
(*                      vector_task up to the embedding request            *)
(*   EmbeddingReply /   vector_task resumes with the provider's answer     *)
(*   EmbeddingFailure                                                      *)
(*   SearchResume       lines 514-534, up to the judge request if any      *)
(*   JudgeReply         rerank resumes, then lines 537-546                 *)
(* Other coroutines (initialize) may run between two pieces.               *)
(***************************************************************************)
\* Faulty variant of search_refuses (sensitivity of C1): no readiness test
never_refuses(ready) == FALSE

\* line 503
search_refuses(ready) == ~ready

\* line 504
NotReadyResult == [error |-> "Search engine not initialized", results |-> <<>>]

\* Faulty variant of candidate_object (sensitivity of C6): the candidate is
\* the stored record itself, as `candidate = doc` would make it
stored_record(doc_idx) == doc_idx + 1

\* The dict object that a candidate is: 0 for a dict that search allocates
\* (the display {**doc, ...} builds a new dict), i + 1 for the stored record
\* documents[i] itself.
candidate_object(doc_idx) == 0

\* lines 524-528
candidate_dict(doc, rrf_score, doc_idx) ==
    DictSet(DictSet(doc, "rrf_score", rrf_score), "_doc_idx", doc_idx)

\* Faulty variant of code_seen (sensitivity of C10): no code is ever seen
never_seen(code, seen_codes) == FALSE

\* the codes of seen_codes that keep a document out of the candidates
code_seen(code, seen_codes) == code \in seen_codes

\* lines 517-528 over ranking = fused_ranking[:retrieval_top_k]: the
\* candidates, each with the object it is
RECURSIVE build_candidates(_, _)
build_candidates(docs, ranking) ==
    IF ranking = <<>> THEN <<>>
    ELSE LET before ==
                 build_candidates(docs, SubSeq(ranking, 1, Len(ranking) - 1))
             e == ranking[Len(ranking)]
             doc == docs[e[1] + 1]
             code == DictGet(doc, "kode_kbli", <<>>)
             seen_codes == {DictGet(before[i].dict, "kode_kbli", <<>>) :
                               i \in DOMAIN before}
         IN  IF code_seen(code, seen_codes) THEN before
             ELSE Append(before, [object |-> candidate_object(e[1]),
                                  dict |-> candidate_dict(doc, e[2], e[1])])

\* line 520 raises IndexError
index_error(docs, ranking) ==
    \E i \in DOMAIN ranking : ranking[i][1] >= Len(docs)

\* The stored records after a piece of search has written to its dicts:
\* a write to a dict that is the stored record i shows in documents[i].
write_through(docs, objects, dicts) ==
    List([i \in DOMAIN docs |->
        IF \E j \in DOMAIN objects : objects[j] = i
        THEN dicts[CHOOSE j \in DOMAIN objects : objects[j] = i]
        ELSE docs[i]])

\* Faulty variant of direct_results (sensitivity of C11): no cut at top_k
all_candidates(candidates, top_k) == candidates

\* line 534: final_results when the re-ranker is not used
direct_results(candidates, top_k) == Take(candidates, top_k)

\* lines 537-538 on the dicts of final_results
clean_up(final_results) ==
    List([i \in DOMAIN final_results |->
             DictPop(final_results[i], "_doc_idx")])

\* lines 540-546
result_dict(call, fused_ranking, final_results) ==
    [query |-> call.query,
     total_candidates |-> Len(fused_ranking),
     bm25_top |-> Len(call.bm25_results),
     vector_top |-> Len(call.vector_results),
     results |-> final_results]

SearchCall(query, top_k, use_reranking, retrieval_top_k) ==
    LET call == [SearchIdle EXCEPT !.query = query, !.top_k = top_k,
                                   !.use_reranking = use_reranking,
                                   !.retrieval_top_k = retrieval_top_k]
    IN  /\ search_call.pc = "idle"
        /\ search_call' =
               IF search_refuses(is_ready)
               THEN [call EXCEPT !.pc = "done", !.outcome = "returned",
                                 !.result = NotReadyResult]
               ELSE [call EXCEPT !.pc = "scheduled"]
        /\ UNCHANGED <<documents, is_ready, bm25, vector_store, cache,
                       init_call, initialized_once, harness>>

\* Faulty variant of RunRetrievalTasks (sensitivity of C24): the fusion is
\* computed from the lexical list as soon as it is there, without waiting
\* for the semantic branch
FuseWithoutWaiting ==
    LET call == search_call
        asks == vector_store.is_ready
        bm25_results == bm25_search(bm25, call.query, call.retrieval_top_k)
    IN  /\ call.pc = "scheduled"
        /\ search_call' =
               [call EXCEPT
                   !.pc = IF asks THEN "embedding" ELSE "gathered",
                   !.bm25_results = bm25_results,
                   !.fused_ranking =
                       reciprocal_rank_fusion(<<bm25_results>>, RRF_K),
                   !.calls = [call.calls EXCEPT
                                 !.bm25 = @ + 1,
                                 !.embedding = IF asks THEN @ + 1 ELSE @]]
        /\ UNCHANGED <<documents, is_ready, bm25, vector_store, cache,
                       init_call, initialized_once, harness>>

RunRetrievalTasks ==
    LET call == search_call
        raises == bm25_search_raises(bm25, call.query)
        asks == vector_store.is_ready    \* line 270 is passed
        calls == [call.calls EXCEPT !.bm25 = @ + 1,
                                    !.embedding = IF asks THEN @ + 1 ELSE @]
    IN  /\ call.pc = "scheduled"
        /\ search_call' =
               IF raises
               THEN [call EXCEPT !.pc = "done", !.outcome = "raised",
                                 !.error = "ZeroDivisionError",
                                 !.calls = calls]
               ELSE [call EXCEPT
                        !.pc = IF asks THEN "embedding" ELSE "gathered",
                        !.bm25_results =
                            bm25_search(bm25, call.query, call.retrieval_top_k),
                        !.calls = calls]
        /\ UNCHANGED <<documents, is_ready, bm25, vector_store, cache,
                       init_call, initialized_once, harness>>

\* lines 275-284
EmbeddingReply(query_embedding) ==
    /\ search_call.pc = "embedding"
    /\ search_call' =
           [search_call EXCEPT
               !.pc = "gathered",
               !.vector_results =
                   vector_search(vector_store.embeddings, query_embedding,
                                 search_call.retrieval_top_k)]
    /\ UNCHANGED <<documents, is_ready, bm25, vector_store, cache,
                   init_call, initialized_once, harness>>

\* Faulty variant of EmbeddingFailure (sensitivity of C25): the request that
\* failed is sent again
EmbeddingRetry ==
    /\ search_call.pc = "embedding"
    /\ search_call' = [search_call EXCEPT !.calls.embedding = @ + 1]
    /\ UNCHANGED <<documents, is_ready, bm25, vector_store, cache,
                   init_call, initialized_once, harness>>

\* the request of line 274 raises; nothing between it and the caller of
\* search catches: vector_task fails, gather re-raises (line 511)
EmbeddingFailure ==
    /\ search_call.pc = "embedding"
    /\ search_call' = [search_call EXCEPT !.pc = "done", !.outcome = "raised",
                                          !.error = "EmbeddingError",
                                          !.embedding_failed = TRUE]
    /\ UNCHANGED <<documents, is_ready, bm25, vector_store, cache,
                   init_call, initialized_once, harness>>

\* lines 514-534 up to the judge request, if any, and lines 537-546 when no
\* request is made: the frame of the call and the stored records afterwards
resume(call, docs) ==
    LET fused_ranking ==
            reciprocal_rank_fusion(<<call.bm25_results, call.vector_results>>,
                                   RRF_K)
        ranking == Take(fused_ranking, call.retrieval_top_k)
        built == build_candidates(docs, ranking)
        candidates == List([i \in DOMAIN built |-> built[i].dict])
        objects == List([i \in DOMAIN built |-> built[i].object])
        stored == write_through(docs, objects, candidates)
        final_results == clean_up(direct_results(candidates, call.top_k))
    IN  IF index_error(docs, ranking)
        THEN [call |-> [call EXCEPT !.pc = "done", !.outcome = "raised",
                                    !.error = "IndexError",
                                    !.fused_ranking = fused_ranking],
              documents |-> docs]
        ELSE IF call.use_reranking /\ rerank_calls_judge(candidates)
        THEN \* suspended in client.chat.completions.create
             [call |-> [call EXCEPT !.pc = "judging",
                                    !.fused_ranking = fused_ranking,
                                    !.candidates = candidates,
                                    !.objects = objects,
                                    !.calls.judge = @ + 1],
              documents |-> stored]
        ELSE [call |-> [call EXCEPT
                           !.pc = "done", !.outcome = "returned",
                           !.fused_ranking = fused_ranking,
                           !.candidates = candidates,
                           !.objects = objects,
                           !.result = result_dict(call, fused_ranking,
                                                  final_results)],
              documents |-> write_through(stored,
                                          Take(objects, Len(final_results)),
                                          final_results)]

SearchResume ==
    /\ search_call.pc = "gathered"
    /\ \E after \in {resume(search_call, documents)} :
          /\ search_call' = after.call
          /\ documents' = after.documents
    /\ UNCHANGED <<is_ready, bm25, vector_store, cache, init_call,
                   initialized_once, harness>>

\* rerank resumes with the judge's response (lines 400-429), then lines
\* 537-546: the frame of the call and the stored records afterwards
judged(call, docs, resp) ==
    LET fell_back == rerank_falls_back(call.candidates, call.top_k, resp)
        reranked == rerank(call.candidates, call.top_k, resp)
        \* the except branch returns the candidate dicts themselves, the
        \* try branch returns copies (candidates[idx].copy())
        objects == IF fell_back
                   THEN Take(Take(call.objects, RerankLimit), call.top_k)
                   ELSE List([i \in DOMAIN reranked |-> 0])
        final_results == clean_up(reranked)
    IN  [call |-> [call EXCEPT !.pc = "done", !.outcome = "returned",
                               !.fell_back = fell_back,
                               !.result = result_dict(call, call.fused_ranking,
                                                      final_results)],
         documents |-> write_through(docs, objects, final_results)]

JudgeReply(resp) ==
    /\ search_call.pc = "judging"
    /\ \E after \in {judged(search_call, documents, resp)} :
          /\ search_call' = after.call
          /\ documents' = after.documents
    /\ UNCHANGED <<is_ready, bm25, vector_store, cache, init_call,
                   initialized_once, harness>>

(***************************************************************************)
(* The engine with its callers and its providers.                          *)
(***************************************************************************)
TopKs == 1..MaxTopK
RetrievalKs == 1..MaxRetrievalK

\* The caller takes what search returned or raised.  A finished frame is kept
\* for this one step only, in which nothing else runs.
SearchReturn ==
    /\ search_call.pc = "done"
    /\ search_call' = SearchIdle
    /\ UNCHANGED <<documents, is_ready, bm25, vector_store, cache, init_call,
                   initialized_once, harness>>

Next ==
    \/ \E docs \in Corpora, cache_dir \in BOOLEAN :
          search_call.pc # "done" /\ InitializeCall(docs, cache_dir)
    \/ search_call.pc # "done" /\ BuildReply
    \/ search_call.pc # "done" /\ BuildFailure
    \/ \E query \in Queries, top_k \in TopKs, use_reranking \in BOOLEAN,
          retrieval_top_k \in RetrievalKs :
          SearchCall(query, top_k, use_reranking, retrieval_top_k)
    \/ RunRetrievalTasks
    \/ \E query_embedding \in QueryEmbeddings : EmbeddingReply(query_embedding)
    \/ EmbeddingFailure
    \/ SearchResume
    \/ \E resp \in JudgeResponses : JudgeReply(resp)
    \/ SearchReturn

Spec == Init /\ [][Next]_vars


(***************************************************************************)
(* The engine on a large corpus: the same operations, called with the      *)
(* default top_k and retrieval_top_k of search and with a top_k as large   *)
(* as the default retrieval_top_k.                                         *)
(***************************************************************************)
\* search(..., top_k: int = 5, ...)
DefaultTopK == 5
\* search(..., retrieval_top_k: int = 20)
DefaultRetrievalTopK == 20

LargeTopKs == {DefaultTopK, DefaultRetrievalTopK}

NextLarge ==
    \/ \E cache_dir \in BOOLEAN :
          search_call.pc # "done" /\ InitializeCall(CorpusBig, cache_dir)
    \/ search_call.pc # "done" /\ BuildReply
    \/ search_call.pc # "done" /\ BuildFailure
    \/ \E query \in Queries, top_k \in LargeTopKs, use_reranking \in BOOLEAN :
          SearchCall(query, top_k, use_reranking, DefaultRetrievalTopK)
    \/ RunRetrievalTasks
    \/ \E query_embedding \in QueryEmbeddings : EmbeddingReply(query_embedding)
    \/ EmbeddingFailure
    \/ SearchResume
    \/ \E resp \in JudgeResponses : JudgeReply(resp)
    \/ SearchReturn

SpecLarge == Init /\ [][NextLarge]_vars

(***************************************************************************)
(* reciprocal_rank_fusion applied on its own: to some ranked lists, then   *)
(* twice to lists with the same document indices in the same order and     *)
(* other raw scores.  A ranked list, as BM25.search and                     *)
(* LocalVectorStore.search                                                  *)
(* build it, holds a document index once at most.                          *)
(***************************************************************************)
DocIds == 0..MaxDocId

IndexLists ==
    {l \in UNION {[1..n -> DocIds] : n \in 0..MaxListLen} :
        \A i, j \in DOMAIN l : i # j => l[i] # l[j]}

\* the raw score of the entry at position p (from 1) of a list, for three
\* kinds of scorer: BM25 scores, cosine similarities, a scorer that gives
\* every document the same score
RawScore(scorer, p) ==
    CASE scorer = "bm25"   -> 1000000 * (MaxListLen + 2 - p)
      [] scorer = "cosine" -> 1 - p
      [] scorer = "flat"   -> 0

\* the (doc_id, score) lists of some lists of document indices
scored(index_lists, scorer) ==
    List([l \in DOMAIN index_lists |->
             List([p \in DOMAIN index_lists[l] |->
                      <<index_lists[l][p], RawScore(scorer, p)>>])])

InitRRF ==
    /\ documents = <<>>
    /\ is_ready = FALSE
    /\ bm25 = BM25New
    /\ vector_store = VectorStoreNew
    /\ cache = CacheAbsent
    /\ init_call = InitIdle("none")
    /\ search_call = SearchIdle
    /\ initialized_once = FALSE
    /\ \E n \in 0..MaxLists : \E index_lists \in [1..n -> IndexLists] :
          fn_args = <<scored(index_lists, "bm25"),
                      scored(index_lists, "cosine"),
                      scored(index_lists, "flat")>>
    /\ fn_result = <<>>

\* the next call: reciprocal_rank_fusion(rankings), k left at its default
FusionCall ==
    /\ Len(fn_result) < Len(fn_args)
    /\ \E rankings \in {fn_args[Len(fn_result) + 1]} :
          \E fused \in {reciprocal_rank_fusion(rankings, RRF_K)} :
             fn_result' = Append(fn_result, fused)
    /\ UNCHANGED <<documents, is_ready, bm25, vector_store, cache, init_call,
                   search_call, initialized_once, fn_args>>

NextRRF == FusionCall

SpecRRF == InitRRF /\ [][NextRRF]_vars

(***************************************************************************)
(* SemanticReranker.rerank on its own: called with a candidate list that   *)
(* may be longer than the limit of 15, a top_k, and a judge that answers   *)
(* with a ranking of any entries, or with no ranking.                      *)
(* fn_args holds the arguments and the judge's response, fn_result is <<>> *)
(* until rerank has returned and then holds the returned list.             *)
(***************************************************************************)
\* the i-th candidate, as search builds it
RerankCandidate(i) ==
    candidate_dict(BigDoc(i), <<1, RRF_K + i>>, i - 1)

RerankCandidates(n) == List([i \in 1..n |-> RerankCandidate(i)])

\* lengths of candidate lists: none, few, the limit, and beyond it
CandidateCounts == {0, 1, 2, RerankLimit, RerankLimit + 1, BigCorpusSize}

\* the values of "index" in the judge's entries: around both ends of 1..15
JudgeIndices == {0, 1, 2, RerankLimit, RerankLimit + 1}

\* the judge's entry at position p of its ranking
JudgeEntry(index, p) ==
    [index |-> IntVal(index), relevance |-> 100 - 10 * p, reason |-> "r"]

\* the well-formed responses: rankings of up to MaxTopK + 1 entries
JudgeRankings ==
    {[call |-> "ok", fence |-> "none",
      body |-> [kind |-> "object",
                rankings |-> List([p \in DOMAIN indices |->
                                      JudgeEntry(indices[p], p)])]] :
       indices \in UNION {[1..n -> JudgeIndices] : n \in 0..(MaxTopK + 1)}}

InitRerank ==
    /\ documents = <<>>
    /\ is_ready = FALSE
    /\ bm25 = BM25New
    /\ vector_store = VectorStoreNew
    /\ cache = CacheAbsent
    /\ init_call = InitIdle("none")
    /\ search_call = SearchIdle
    /\ initialized_once = FALSE
    /\ \E n \in CandidateCounts, top_k \in 1..(MaxTopK + 1),
          resp \in JudgeRankings \cup JudgeResponses :
          fn_args = [candidates |-> RerankCandidates(n), top_k |-> top_k,
                     resp |-> resp]
    /\ fn_result = <<>>

\* rerank(query, candidates, top_k) runs to its return
RerankCall ==
    /\ fn_result = <<>>
    /\ fn_result' = <<rerank(fn_args.candidates, fn_args.top_k, fn_args.resp)>>
    /\ UNCHANGED <<documents, is_ready, bm25, vector_store, cache, init_call,
                   search_call, initialized_once, fn_args>>

NextRerank == RerankCall

SpecRerank == InitRerank /\ [][NextRerank]_vars

(***************************************************************************)
(* BM25 on its own: fit on a document list, then search.                   *)
(* fn_args holds the arguments of the latest search on the fitted index    *)
(* and whether it raised, fn_result what it returned.                      *)
(***************************************************************************)
\* two documents of the same text after a shorter one: equal scores
CorpusTie == <<Doc56101, Doc47111, Doc47111>>
CorpusSingle == <<Doc47111Dup>>
CorpusSwapped == <<Doc56101, Doc47111>>
CorpusTriple == <<Doc47111, Doc47111Dup, Doc56101>>

\* documents whose text has no token: the average length is 0
CorpusNoToken == <<BigDoc(1), DocNoText>>

BM25Corpora == {<<>>, CorpusSingle, CorpusPair, CorpusSwapped, CorpusTriple,
                CorpusTie, CorpusDup, <<DocGroup, Doc47111>>, CorpusNoToken}

BM25Queries == Queries \cup {<<"makanan">>, <<"Restoran">>,
                             <<"makanan", "Eceran", "makanan">>}

InitBM25 ==
    /\ documents = <<>>
    /\ is_ready = FALSE
    /\ bm25 = BM25New
    /\ vector_store = VectorStoreNew
    /\ cache = CacheAbsent
    /\ init_call = InitIdle("none")
    /\ search_call = SearchIdle
    /\ initialized_once = FALSE
    /\ fn_args = <<>>
    /\ fn_result = <<>>

\* bm25.fit(docs, text_fields) as initialize calls it (line 472)
BM25Fit(docs) ==
    /\ bm25' = fit(docs, BM25Fields)
    /\ fn_args' = <<>>
    /\ fn_result' = <<>>
    /\ UNCHANGED <<documents, is_ready, vector_store, cache, init_call,
                   search_call, initialized_once>>

\* bm25.search(query, top_k)
BM25Search(query, top_k) ==
    /\ fn_args' = [query |-> query, top_k |-> top_k,
                   raised |-> bm25_search_raises(bm25, query)]
    /\ fn_result' = IF bm25_search_raises(bm25, query) THEN <<>>
                    ELSE bm25_search(bm25, query, top_k)
    /\ UNCHANGED <<documents, is_ready, bm25, vector_store, cache, init_call,
                   search_call, initialized_once>>

NextBM25 ==
    \/ \E docs \in BM25Corpora : BM25Fit(docs)
    \/ \E query \in BM25Queries, top_k \in 1..(MaxTopK + 1) :
          BM25Search(query, top_k)

SpecBM25 == InitBM25 /\ [][NextBM25]_vars

(***************************************************************************)
(* LocalVectorStore on its own: build_index called directly, with or       *)
(* without a cache directory and force_rebuild, on a store that may be the *)
(* store of a new process (the cache file outlives the process).           *)
(* fn_args holds the arguments of the latest build_index call and what the *)
(* call found on disk; fn_result holds the index that the latest completed *)
(* save wrote, as long as the file is that save.                           *)
(***************************************************************************)
StoreCorpora == {<<>>, CorpusPair, CorpusSwapped, CorpusTriple}

InitStore ==
    /\ documents = <<>>
    /\ is_ready = FALSE
    /\ bm25 = BM25New
    /\ vector_store = VectorStoreNew
    /\ cache \in {CacheAbsent, CacheCorrupt, CachePartial}
    /\ init_call = InitIdle("none")
    /\ search_call = SearchIdle
    /\ initialized_once = FALSE
    /\ fn_args = <<>>
    /\ fn_result = <<>>

\* build_index is called: lines 226-248
StoreBuildCall(docs, cache_dir, force_rebuild) ==
    /\ init_call.pc = "idle"
    /\ \E started \in {build_index_start(docs, cache_dir, force_rebuild)} :
          /\ vector_store' = started.store
          /\ init_call' =
                 [pc |-> IF started.pc = "embedding" THEN "embedding"
                         ELSE "done",
                  documents |-> docs,
                  cache_dir |-> cache_dir,
                  outcome |-> CASE started.pc = "returned"    -> "ok"
                                [] started.pc = "value_error" -> "value_error"
                                [] started.pc = "embedding"   -> "running"]
    /\ fn_args' = [documents |-> docs, cache_dir |-> cache_dir,
                   force_rebuild |-> force_rebuild, found |-> cache.state]
    /\ UNCHANGED <<documents, is_ready, bm25, cache, search_call,
                   initialized_once, fn_result>>

\* the provider answered: lines 249-261
StoreBuildReply ==
    /\ init_call.pc = "embedding"
    /\ \E built \in {index_built(init_call)} :
          /\ vector_store' = built
          /\ cache' \in cache_after_save(init_call, built)
          /\ fn_result' =
                 IF cache' = cache THEN fn_result
                 ELSE IF cache'.state = "ok"
                 THEN [embeddings |-> built.embeddings,
                       documents |-> built.documents]
                 ELSE <<>>
    /\ init_call' = [init_call EXCEPT !.pc = "done", !.outcome = "ok"]
    /\ UNCHANGED <<documents, is_ready, bm25, search_call, initialized_once,
                   fn_args>>

\* the provider failed: the exception leaves build_index
StoreBuildFailure ==
    /\ init_call.pc = "embedding"
    /\ init_call' = [init_call EXCEPT !.pc = "done",
                                      !.outcome = "provider_error"]
    /\ UNCHANGED <<documents, is_ready, bm25, vector_store, cache,
                   search_call, initialized_once, harness>>

\* the caller has build_index's return or its exception
StoreBuildReturn ==
    /\ init_call.pc = "done"
    /\ init_call' = InitIdle(init_call.outcome)
    /\ UNCHANGED <<documents, is_ready, bm25, vector_store, cache,
                   search_call, initialized_once, harness>>

\* a new process: LocalVectorStore.__init__, the cache file as it was left
StoreRestart ==
    /\ init_call.pc = "idle"
    /\ vector_store # VectorStoreNew
    /\ vector_store' = VectorStoreNew
    /\ init_call' = InitIdle("none")
    /\ UNCHANGED <<documents, is_ready, bm25, cache, search_call,
                   initialized_once, harness>>

NextStore ==
    \/ \E docs \in StoreCorpora, cache_dir \in BOOLEAN,
          force_rebuild \in BOOLEAN :
          StoreBuildCall(docs, cache_dir, force_rebuild)
    \/ StoreBuildReply
    \/ StoreBuildFailure
    \/ StoreBuildReturn
    \/ StoreRestart

SpecStore == InitStore /\ [][NextStore]_vars

(***************************************************************************)
(* Properties of the engine.                                               *)
(***************************************************************************)
\* a step of a search call: only search writes its frame
SearchStep == search_call' # search_call /\ search_call.pc # "done"

\* the identifiers of a list of dicts
Codes(dicts) ==
    List([i \in DOMAIN dicts |-> DictGet(dicts[i], "kode_kbli", <<>>)])

\* C1: as long as no initialize call has completed, a search call is over in
\* one step: it returns the not-ready result (an error marker and an empty
\* results list), raises nothing, and has asked for no lexical search, no
\* embedding and no judgement.
C1_SearchBeforeInitializeIsRefused ==
    ~initialized_once =>
        /\ search_call.pc \in {"idle", "done"}
        /\ search_call.pc = "done" =>
              /\ search_call.outcome = "returned"
              /\ "error" \in DOMAIN search_call.result
              /\ search_call.result.results = <<>>
              /\ search_call.calls = NoCalls

\* C1 witness: a search was refused after an initialize call had failed in
\* the index build
C1_Witness ==
    /\ search_call.pc = "done"
    /\ ~initialized_once
    /\ init_call.outcome = "provider_error"
    /\ search_call.result = NotReadyResult

\* C2 (as claimed): a search whose embedding request failed still returns a
\* result: the semantic list is empty, the fused ranking is the fusion of the
\* lexical list alone, and nothing is raised.
C2_EmbeddingFailureIsAbsorbed ==
    (search_call.pc = "done" /\ search_call.embedding_failed) =>
        /\ search_call.outcome = "returned"
        /\ search_call.vector_results = <<>>
        /\ search_call.result.total_candidates =
               Len(reciprocal_rank_fusion(<<search_call.bm25_results>>, RRF_K))

\* C3 (as claimed): when rerank falls back, search returns the first top_k
\* candidates, in fusion order: min(top_k, number of candidates) of them.
C3_FallbackReturnsFirstK ==
    (search_call.pc = "done" /\ search_call.fell_back) =>
        /\ Len(search_call.result.results) =
               Min(search_call.top_k, Len(search_call.candidates))
        /\ Codes(search_call.result.results) =
               Codes(Take(search_call.candidates, search_call.top_k))

\* C4 (as claimed): a search called when the latest initialize call has failed
\* on the embedding provider is refused with the not-ready result.
C4_FailedInitializeLeavesNotReady ==
    [][(/\ init_call.outcome = "provider_error"
        /\ search_call.pc = "idle"
        /\ search_call'.pc # "idle")
       => search_call'.result = NotReadyResult]_vars

\* the engine's documents and lexical index are those of the corpus being
\* built while the embedding matrix in use is still the one of another corpus
MixedIndex ==
    /\ init_call.pc = "embedding"
    /\ documents = init_call.documents
    /\ bm25 = fit(init_call.documents, BM25Fields)
    /\ vector_store.is_ready
    /\ vector_store.embeddings # build_embeddings(documents, VectorFields)

\* C5 (as claimed): while initialize is suspended in the index build with the
\* indices mixed, no search call runs any of its steps: a call is refused,
\* and a call in progress waits.
C5_NoSearchOnMixedIndex ==
    [][(MixedIndex /\ SearchStep)
       => (search_call.pc = "idle" /\ search_call'.result = NotReadyResult)]_vars

\* C6: a step of a search call, whichever it is, leaves the engine as it was:
\* the documents and each of their records, every field of the BM25 index,
\* the embedding matrix and both is_ready flags.
C6_SearchLeavesEngineUnchanged ==
    [][SearchStep =>
         /\ documents' = documents
         /\ bm25' = bm25
         /\ vector_store' = vector_store
         /\ is_ready' = is_ready]_vars

\* C6 witness: a search that went through the judge's fallback and returned
\* candidates
C6_Witness ==
    /\ search_call.pc = "done"
    /\ search_call.fell_back
    /\ search_call.result.results # <<>>
    /\ "rrf_score" \in DOMAIN search_call.result.results[1]

\* C10: the candidates have pairwise distinct identifiers, they come in the
\* order of the fused ranking, and each is the first document of the fused
\* ranking that carries its identifier.
C10_CandidatesAreDeduplicated ==
    [][(search_call.pc = "gathered" /\ search_call'.error # "IndexError") =>
         LET fused == search_call'.fused_ranking
             cands == search_call'.candidates
             \* position in the fused ranking of candidate i
             at(i) == CHOOSE p \in DOMAIN fused :
                         fused[p][1] = cands[i]["_doc_idx"]
             code(p) == DictGet(documents[fused[p][1] + 1], "kode_kbli", <<>>)
         IN  /\ \A i, j \in DOMAIN cands :
                   i # j => cands[i].kode_kbli # cands[j].kode_kbli
             /\ \A i \in DOMAIN cands :
                   /\ \E p \in DOMAIN fused : fused[p][1] = cands[i]["_doc_idx"]
                   /\ cands[i].kode_kbli = code(at(i))
                   /\ \A p \in 1..(at(i) - 1) : code(p) # code(at(i))
             /\ \A i, j \in DOMAIN cands : i < j => at(i) < at(j)]_vars

\* C10 witness: two documents of the fused ranking carried the same
\* identifier, and one candidate was built for them
C10_Witness ==
    /\ search_call.pc = "done"
    /\ search_call.outcome = "returned"
    /\ Len(search_call.fused_ranking) >= 2
    /\ search_call.retrieval_top_k >= 2
    /\ Len(search_call.candidates) = 1
    /\ Len(documents) = 3
    /\ documents[search_call.fused_ranking[1][1] + 1].kode_kbli =
           documents[search_call.fused_ranking[2][1] + 1].kode_kbli

\* a search call is over and has returned the result of a search that ran
SearchReturned ==
    /\ search_call.pc = "done"
    /\ search_call.outcome = "returned"
    /\ search_call.result # NotReadyResult

\* C11: a search that does not use the re-ranker, or has no candidate, sends
\* no request to the judge and returns the first min(top_k, number of
\* candidates) candidates, in their order, which is by non-increasing fusion
\* score.
C11_DirectResultsAreFirstK ==
    (SearchReturned
         /\ (~search_call.use_reranking \/ search_call.candidates = <<>>)) =>
        LET results == search_call.result.results
            candidates == search_call.candidates
        IN  /\ search_call.calls.judge = 0
            /\ Len(results) = Min(search_call.top_k, Len(candidates))
            /\ \A i \in DOMAIN results :
                  results[i] = DictPop(candidates[i], "_doc_idx")
            /\ \A i, j \in DOMAIN results :
                  i < j => ~RatLess(results[i].rrf_score, results[j].rrf_score)

\* C11 witness: a search without re-ranking had two candidates and returned
\* the first only
C11_Witness ==
    /\ SearchReturned
    /\ ~search_call.use_reranking
    /\ search_call.top_k = 1
    /\ Len(search_call.candidates) = 2
    /\ Len(search_call.result.results) = 1

\* C12 (as claimed): no returned result carries the fusion score or the
\* source index.
C12_ResultsCarryNoProvenance ==
    SearchReturned =>
        \A i \in DOMAIN search_call.result.results :
            /\ "rrf_score" \notin DOMAIN search_call.result.results[i]
            /\ "_doc_idx" \notin DOMAIN search_call.result.results[i]


\* the document indices that the two retrievals of the call have produced
RetrievedIndices ==
    {search_call.bm25_results[i][1] : i \in DOMAIN search_call.bm25_results}
        \cup
    {search_call.vector_results[i][1] :
        i \in DOMAIN search_call.vector_results}

\* C17 (as claimed): once the engine is ready, every index that the lexical
\* or the semantic retrieval of a search call produces is an index into the
\* engine's documents, and no search call ends with IndexError.
C17_RetrievedIndicesAreValid ==
    /\ (is_ready /\ search_call.pc = "gathered") =>
           \A idx \in RetrievedIndices : idx < Len(documents)
    /\ (is_ready /\ search_call.pc = "done") =>
           search_call.error # "IndexError"

\* the finished call searched "jual makanan", without re-ranking, on the
\* engine initialized with the two documents 47111 and 56101: its lexical
\* list is the one of the BM25 index of the two documents, its semantic list
\* the one of their embedding matrix for some answer of the provider
JualMakananOnPair ==
    /\ SearchReturned
    /\ search_call.query = <<"jual", "makanan">>
    /\ ~search_call.use_reranking
    /\ documents = CorpusPair
    /\ search_call.bm25_results =
           bm25_search(fit(CorpusPair, BM25Fields), search_call.query,
                       search_call.retrieval_top_k)
    /\ \E q \in QueryEmbeddings :
          search_call.vector_results =
              vector_search(build_embeddings(CorpusPair, VectorFields), q,
                            search_call.retrieval_top_k)

\* C19: such a search returns 47111 first; 56101, when it is returned, comes
\* after it.
C19_JualMakananRanks47111First ==
    JualMakananOnPair =>
        LET results == search_call.result.results
        IN  /\ results # <<>>
            /\ results[1].kode_kbli = Doc47111.kode_kbli
            /\ \A i \in DOMAIN results :
                  results[i].kode_kbli = Doc56101.kode_kbli => i > 1

\* C19 witness: the semantic branch has put 56101 first, and both documents
\* are returned
C19_Witness ==
    /\ JualMakananOnPair
    /\ search_call.vector_results # <<>>
    /\ search_call.vector_results[1][1] = 1
    /\ Len(search_call.result.results) = 2
    /\ search_call.result.results[2].kode_kbli = Doc56101.kode_kbli

\* a record with an identifier of five characters, all of them digits
WellFormedCode(d) ==
    /\ "kode_kbli" \in DOMAIN d
    /\ Len(d.kode_kbli) = 5
    /\ \A i \in 1..5 : d.kode_kbli[i] \in Digits

\* C23: once an initialize call has completed, and until the next one is
\* called, the engine's documents are the records of the list given to that
\* call that have a five-digit identifier, in the order of the list, and the
\* BM25 index holds these documents, one token list each, and no other.
C23_DocumentsAreTheWellFormedInput ==
    (init_call.pc = "idle" /\ init_call.outcome = "ok") =>
        /\ documents = SelectSeq(fn_args, WellFormedCode)
        /\ \A i \in DOMAIN documents : WellFormedCode(documents[i])
        /\ bm25.original_docs = documents
        /\ bm25.corpus_size = Len(documents)
        /\ Len(bm25.documents) = Len(documents)
        /\ \A i \in DOMAIN documents :
              bm25.documents[i] =
                  tokenize(combined_text(documents[i], BM25Fields))

\* C23 witness: initialize has completed on a list of seven records of which
\* four have no five-digit identifier
C23_Witness ==
    /\ init_call.pc = "idle"
    /\ init_call.outcome = "ok"
    /\ is_ready
    /\ fn_args = CorpusMixed
    /\ Len(documents) = 3
    /\ bm25.corpus_size = 3

\* C20 (as claimed): a search call that a ready engine accepted with a query
\* without token (the empty query among them) raises nothing and returns no
\* ranked document, here with an embedding provider that answers.
C20_NoTokenQueryReturnsNothing ==
    (/\ search_call.pc = "done"
     /\ search_call.result # NotReadyResult
     /\ ~search_call.embedding_failed
     /\ tokenize(search_call.query) = <<>>)
        => /\ search_call.outcome = "returned"
           /\ search_call.result.results = <<>>

\* a search call is over whose results are what rerank made of a judge
\* response that it could parse
RerankedReturned ==
    /\ SearchReturned
    /\ search_call.calls.judge = 1
    /\ ~search_call.fell_back

\* C21 (as claimed): every result of such a call carries a relevance score
\* between 0 and 1 (0 and 100 hundredths), and the results are in
\* non-increasing relevance order.
C21_RelevanceInRangeAndOrdered ==
    RerankedReturned =>
        LET results == search_call.result.results
        IN  /\ \A i \in DOMAIN results :
                  /\ "relevance_score" \in DOMAIN results[i]
                  /\ results[i].relevance_score >= 0
                  /\ results[i].relevance_score <= 100
            /\ \A i, j \in DOMAIN results :
                  i < j => results[i].relevance_score
                              >= results[j].relevance_score

\* C22 (as claimed): no result of such a call has a judged relevance of 0.3
\* (30 hundredths) or lower.
C22_LowRelevanceIsFilteredOut ==
    RerankedReturned =>
        \A i \in DOMAIN search_call.result.results :
            search_call.result.results[i].relevance_score > 30

(***************************************************************************)
(* Properties of BM25.search.                                              *)
(***************************************************************************)
\* the score of the document of index idx for the query of the latest search
ScoreOf(idx) ==
    score_document(bm25, tokenize(fn_args.query), bm25.documents[idx + 1],
                   bm25.doc_len[idx + 1])

\* the documents of the fitted index with a score above zero for that query
Positive == {idx \in 0..(Len(bm25.documents) - 1) : ScoreOf(idx) > 0}

\* (i, s) comes before (j, t) in the order of the claim: the higher score,
\* and of two equal scores the document that is earlier in the corpus
Before(i, s, j, t) == s > t \/ (s = t /\ i < j)

\* C18: BM25.search(query, k) returns pairs (index, score) of documents
\* whose score for the query is above zero, each at most once; min(k, number
\* of such documents) of them; in non-increasing score order with equal
\* scores in corpus order; every document left out comes after every
\* document returned in that order.  A returned document shares a token with
\* the query, and a query without token returns nothing.
C18_BM25ReturnsPositiveScoresInOrder ==
    fn_args # <<>> =>
        LET res == fn_result
            Returned == {res[i][1] : i \in DOMAIN res}
            query_tokens == tokenize(fn_args.query)
        IN  /\ \A i \in DOMAIN res :
                  /\ res[i][1] \in Positive
                  /\ res[i][2] = ScoreOf(res[i][1])
                  /\ Range(query_tokens)
                        \cap Range(bm25.documents[res[i][1] + 1]) # {}
            /\ Cardinality(Returned) = Len(res)
            /\ Len(res) = Min(fn_args.top_k, Cardinality(Positive))
            /\ \A i, j \in DOMAIN res :
                  i < j => Before(res[i][1], res[i][2], res[j][1], res[j][2])
            /\ \A idx \in Positive \ Returned : \A i \in DOMAIN res :
                  Before(res[i][1], res[i][2], idx, ScoreOf(idx))
            /\ query_tokens = <<>> => res = <<>>

\* C18 witness: of three documents one scores zero and two score the same;
\* the search for one result has returned the earlier of the two
C18_Witness ==
    /\ fn_args # <<>>
    /\ bm25.original_docs = CorpusTie
    /\ fn_args.top_k = 1
    /\ ScoreOf(0) = 0
    /\ ScoreOf(1) > 0
    /\ ScoreOf(1) = ScoreOf(2)
    /\ Len(fn_result) = 1
    /\ fn_result[1][1] = 1

(***************************************************************************)
(* Properties of LocalVectorStore.build_index.                             *)
(***************************************************************************)
\* a step that is a call of build_index
BuildCallStep == init_call.pc = "idle" /\ init_call'.pc # "idle"

\* a step in which build_index ends with a rebuilt index
BuildReplyStep == init_call.pc = "embedding" /\ init_call'.outcome = "ok"

\* C13: build_index returns with the cached index, without a request, exactly
\* when a cache directory is given, force_rebuild is false, the file loads and
\* its document count is the caller's.  Otherwise it asks the provider for
\* the embeddings of the caller's documents (no request when there is no
\* document: build_index then raises ValueError), and the index it ends with
\* has one fresh row per caller document and nothing of the cache.
C13_CacheReusedIffCountMatches ==
    [][LET a == fn_args'
           reuse == /\ a.cache_dir
                    /\ ~a.force_rebuild
                    /\ cache.state = "ok"
                    /\ Len(cache.documents) = Len(a.documents)
       IN  /\ BuildCallStep =>
                /\ (init_call'.pc = "done" /\ init_call'.outcome = "ok")
                       <=> reuse
                /\ reuse => /\ vector_store'.embeddings = cache.embeddings
                            /\ vector_store'.documents = cache.documents
                            /\ vector_store'.is_ready
                /\ ~reuse => /\ (init_call'.pc = "embedding")
                                    <=> (a.documents # <<>>)
                             /\ (init_call'.outcome = "value_error")
                                    <=> (a.documents = <<>>)
                             /\ vector_store'.documents = a.documents
           /\ BuildReplyStep =>
                /\ Len(vector_store'.embeddings) = Len(fn_args.documents)
                /\ \A i \in DOMAIN fn_args.documents :
                      vector_store'.embeddings[i] =
                          normalize(provider_embedding(
                              combined_text(fn_args.documents[i],
                                            VectorFields)))
                /\ vector_store'.documents = fn_args.documents]_vars

\* C13 witness: a cache of another document count was on disk, and the index
\* has been rebuilt from the provider
C13_Witness ==
    /\ init_call.pc = "done"
    /\ init_call.outcome = "ok"
    /\ fn_args.cache_dir
    /\ ~fn_args.force_rebuild
    /\ fn_args.found = "ok"
    /\ Len(fn_args.documents) = 2
    /\ vector_store.embeddings =
           build_embeddings(fn_args.documents, VectorFields)
    /\ cache.state = "ok"
    /\ Len(cache.documents) = 3

\* C14: when the file on disk is what a build saved, build_index on a new
\* store with the cache directory and as many documents as were saved makes
\* no request and ends with the saved matrix, which ranks the documents for
\* a query embedding as the saved index did.
C14_CacheRoundTrip ==
    [][(/\ BuildCallStep
        /\ vector_store = VectorStoreNew
        /\ fn_result # <<>>
        /\ fn_args'.cache_dir
        /\ ~fn_args'.force_rebuild
        /\ Len(fn_args'.documents) = Len(fn_result.documents))
       => /\ init_call'.pc = "done"
          /\ init_call'.outcome = "ok"
          /\ vector_store'.is_ready
          /\ vector_store'.embeddings = fn_result.embeddings
          /\ \A q \in QueryEmbeddings, k \in 1..3 :
                vector_search(vector_store'.embeddings, q, k) =
                    vector_search(fn_result.embeddings, q, k)]_vars

\* C14 witness: a new store has loaded the index that an earlier build saved,
\* for other documents of the same count
C14_Witness ==
    /\ init_call.pc = "done"
    /\ init_call.outcome = "ok"
    /\ fn_args.found = "ok"
    /\ fn_args.cache_dir
    /\ ~fn_args.force_rebuild
    /\ fn_result # <<>>
    /\ fn_args.documents # fn_result.documents
    /\ vector_store.embeddings = fn_result.embeddings
    /\ Len(vector_store.embeddings) = 2

\* C15 (as claimed): when build_index has failed on the embedding provider,
\* the vector store is not ready.
C15_FailedBuildLeavesStoreNotReady ==
    (init_call.pc = "done" /\ init_call.outcome = "provider_error")
        => ~vector_store.is_ready

\* C16: build_index with a cache file that cannot be read, or that unpickles
\* to something other than a cache, goes on as it does with no cache
\* directory: no exception of the file reaches the caller, the readiness and
\* the documents of the store are those of a build without cache, and the
\* provider is asked for every document.  When the provider has answered,
\* the index is ready and is the rebuilt one, whether or not the file could
\* be written.
C16_CacheErrorsAreNotFatal ==
    [][/\ (BuildCallStep /\ cache.state \in {"corrupt", "partial"}) =>
             LET a == fn_args'
                 plain == build_index_start(a.documents, FALSE,
                                            a.force_rebuild)
             IN  /\ vector_store'.documents = a.documents
                 /\ vector_store'.is_ready = vector_store.is_ready
                 /\ cache.state = "corrupt" => vector_store' = plain.store
                 /\ (init_call'.pc = "embedding")
                        <=> (a.documents # <<>>)
                 /\ (init_call'.pc = "embedding")
                        <=> (plain.pc = "embedding")
                 /\ init_call'.outcome \in {"running", "value_error"}
       /\ BuildReplyStep =>
             /\ vector_store'.is_ready
             /\ vector_store'.embeddings =
                    build_embeddings(fn_args.documents, VectorFields)
             /\ \A q \in QueryEmbeddings :
                   Len(vector_search(vector_store'.embeddings, q, 3)) =
                       Len(fn_args.documents)]_vars

\* C16 witness: the call found a file it could not read, rebuilt the index,
\* and the write of the cache failed
C16_Witness ==
    /\ init_call.pc = "done"
    /\ init_call.outcome = "ok"
    /\ fn_args.cache_dir
    /\ ~fn_args.force_rebuild
    /\ fn_args.found = "partial"
    /\ cache.state = "corrupt"
    /\ vector_store.is_ready
    /\ Len(vector_store.embeddings) = 2

(***************************************************************************)
(* Properties of reciprocal_rank_fusion.                                   *)
(***************************************************************************)
\* the document indices of a ranked list
IdsOf(ranking) == {ranking[p][1] : p \in DOMAIN ranking}

\* the 0-based position of doc_id in a ranked list that holds it
PositionOf(ranking, doc_id) ==
    (CHOOSE p \in DOMAIN ranking : ranking[p][1] = doc_id) - 1

\* the sum of 1/(RRF_K + p + 1) over the lists that hold doc_id at position p
RECURSIVE ExpectedScore(_, _)
ExpectedScore(rankings, doc_id) ==
    IF rankings = <<>> THEN <<0, 1>>
    ELSE LET rest == ExpectedScore(Tail(rankings), doc_id)
             ranking == Head(rankings)
         IN  IF doc_id \in IdsOf(ranking)
             THEN RatAdd(<<1, RRF_K + PositionOf(ranking, doc_id) + 1>>, rest)
             ELSE rest

\* the call that has just returned; a call that returned earlier is the one
\* that has just returned in an earlier state of the behaviour
FusionCalls == IF fn_result = <<>> THEN {} ELSE {Len(fn_result)}

\* C7: every document of a fused ranking has the score that is the sum, over
\* the lists holding it, of 1/(K + p + 1), p its 0-based position and K = 60;
\* a document first in both of two lists has 2/(K+1), a document first in one
\* list and in no other has 1/(K+1), which is less.
C7_FusedScoreIsSumOfReciprocalRanks ==
    \A c \in FusionCalls :
        LET rankings == fn_args[c]
            fused == fn_result[c]
        IN  /\ \A i \in DOMAIN fused :
                  fused[i][2] = ExpectedScore(rankings, fused[i][1])
            /\ \A i \in DOMAIN fused :
                  LET doc_id == fused[i][1]
                      holders == {l \in DOMAIN rankings :
                                     doc_id \in IdsOf(rankings[l])}
                      firsts == {l \in holders :
                                    rankings[l][1][1] = doc_id}
                  IN  /\ (Len(rankings) = 2 /\ firsts = {1, 2})
                            => fused[i][2] = <<2, RRF_K + 1>>
                      /\ (Cardinality(holders) = 1 /\ firsts = holders)
                            => /\ fused[i][2] = <<1, RRF_K + 1>>
                               /\ RatLess(fused[i][2], <<2, RRF_K + 1>>)

\* C7 witness: two lists with the same first document, one of them holding a
\* second document, have been fused
C7_Witness ==
    /\ Len(fn_result) >= 1
    /\ Len(fn_args[1]) = 2
    /\ Len(fn_args[1][1]) = 2
    /\ Len(fn_args[1][2]) = 1
    /\ fn_args[1][1][1][1] = fn_args[1][2][1][1]
    /\ Len(fn_result[1]) = 2

\* C8: the document indices of a fused ranking are those of the input lists
\* taken together, and none comes twice, whatever the number of lists and
\* whether or not some are empty.
C8_FusedIdsAreTheUnionOnce ==
    \A c \in FusionCalls :
        LET rankings == fn_args[c]
            fused == fn_result[c]
        IN  /\ IdsOf(fused) = UNION {IdsOf(rankings[l]) : l \in DOMAIN rankings}
            /\ \A i, j \in DOMAIN fused :
                  i # j => fused[i][1] # fused[j][1]

\* C8 witness: two lists of two documents that share one document have been
\* fused into a ranking of three
C8_Witness ==
    /\ Len(fn_result) >= 1
    /\ Len(fn_args[1]) = 2
    /\ Len(fn_args[1][1]) = 2
    /\ Len(fn_args[1][2]) = 2
    /\ fn_args[1][1][1][1] = fn_args[1][2][2][1]
    /\ fn_args[1][1][2][1] # fn_args[1][2][1][1]
    /\ Len(fn_result[1]) = 3

\* C9: two calls whose lists hold the same document indices in the same order
\* return the same fused ranking, scores included, whatever the raw scores.
C9_FusionIgnoresRawScores ==
    \A c \in FusionCalls : c > 1 =>
        /\ \A l \in DOMAIN fn_args[1] : \A p \in DOMAIN fn_args[1][l] :
              fn_args[1][l][p][1] = fn_args[c][l][p][1]
        /\ fn_result[1] = fn_result[c]

\* C9 witness: both calls are over, and their lists differed in a raw score
C9_Witness ==
    /\ Len(fn_result) >= 2
    /\ Len(fn_result[1]) >= 2
    /\ \E l \in DOMAIN fn_args[1] : \E p \in DOMAIN fn_args[1][l] :
          fn_args[1][l][p][2] # fn_args[2][l][p][2]

(***************************************************************************)
(* Order of the stages of search.                                          *)
(***************************************************************************)
\* a step in which search computes a fused ranking that is not empty
FusionStep ==
    /\ search_call.pc # "done"
    /\ search_call.fused_ranking = <<>>
    /\ search_call'.fused_ranking # <<>>

\* a step in which the request to the judge is sent
JudgeRequestStep ==
    search_call.calls.judge = 0 /\ search_call'.calls.judge = 1

\* C24: as long as a branch of the retrieval is running, the call has no
\* fused ranking, no candidate and no judge request.  The fusion is computed
\* in a step that starts with both branches over, from the two lists they
\* returned.  The judge request is sent in a step that starts with both
\* branches over, and when it is sent the fused ranking is the fusion of the
\* two lists and the candidates are all the candidates of its first
\* retrieval_top_k entries.
C24_StagesRunInOrder ==
    [][/\ search_call'.pc \in {"scheduled", "embedding", "gathered"} =>
             /\ search_call'.fused_ranking = <<>>
             /\ search_call'.candidates = <<>>
             /\ search_call'.calls.judge = 0
       /\ (FusionStep \/ JudgeRequestStep) =>
             /\ search_call.pc = "gathered"
             /\ search_call.calls.bm25 = 1
             /\ search_call'.bm25_results = search_call.bm25_results
             /\ search_call'.vector_results = search_call.vector_results
             /\ IdsOf(search_call'.fused_ranking) =
                    IdsOf(search_call.bm25_results)
                       \cup IdsOf(search_call.vector_results)
       /\ JudgeRequestStep =>
             LET ranking == Take(search_call'.fused_ranking,
                                 search_call.retrieval_top_k)
                 built == build_candidates(documents, ranking)
             IN  /\ search_call'.pc = "judging"
                 /\ search_call'.candidates # <<>>
                 /\ search_call'.candidates =
                        [i \in DOMAIN built |-> built[i].dict]]_vars

\* C24 witness: the judge has been asked about two candidates, after a
\* lexical and a semantic list that both hold documents
C24_Witness ==
    /\ search_call.pc = "judging"
    /\ search_call.calls = [bm25 |-> 1, embedding |-> 1, judge |-> 1]
    /\ search_call.bm25_results # <<>>
    /\ Len(search_call.vector_results) = 2
    /\ Len(search_call.fused_ranking) = 2
    /\ Len(search_call.candidates) = 2

\* a step of a search call in which a request comes back failed: the embedding
\* request raised, or rerank ended in its except branch
FailedRequestStep ==
    \/ ~search_call.embedding_failed /\ search_call'.embedding_failed
    \/ ~search_call.fell_back /\ search_call'.fell_back

\* C25: a search call sends at most one embedding request and at most one
\* judge request: its counts of requests never exceed one, and the step in
\* which a request comes back, failed or not, sends no request.  A failed
\* request ends the call in that step: the embedding failure is raised, the
\* judge failure gives the fallback result.
C25_AtMostOneRequestOfEachKind ==
    [][/\ search_call'.calls.embedding <= 1
       /\ search_call'.calls.judge <= 1
       /\ (search_call.pc \in {"embedding", "judging"} /\ SearchStep) =>
             search_call'.calls = search_call.calls
       /\ FailedRequestStep =>
             /\ search_call'.pc = "done"
             /\ search_call'.calls = search_call.calls
             /\ search_call'.embedding_failed =>
                    search_call'.outcome = "raised"
             /\ search_call'.fell_back =>
                    search_call'.outcome = "returned"]_vars

\* C25 witness: the embedding request of a call failed, and the call is over
\* having sent that one request
C25_Witness ==
    /\ search_call.pc = "done"
    /\ search_call.embedding_failed
    /\ search_call.calls.embedding = 1
    /\ search_call.calls.judge = 0

(***************************************************************************)
(* The candidate list.                                                     *)
(***************************************************************************)
\* the identifiers of the documents of the whole fused ranking of the call
FusedCodes ==
    {DictGet(documents[search_call.fused_ranking[p][1] + 1], "kode_kbli",
             <<>>) : p \in DOMAIN search_call.fused_ranking}

\* C26 (as claimed): when the fused ranking of a search holds at least
\* retrieval_top_k distinct identifiers, the search has built exactly
\* retrieval_top_k candidates.  Stated on calls that returned without
\* re-ranking, whose documents are those the candidates were built from.
C26_CandidatesFillRetrievalK ==
    (/\ SearchReturned
     /\ search_call.calls.judge = 0
     /\ \A idx \in IdsOf(search_call.fused_ranking) : idx < Len(documents)
     /\ Cardinality(FusedCodes) >= search_call.retrieval_top_k)
        => Len(search_call.candidates) = search_call.retrieval_top_k

(***************************************************************************)
(* Order of the fused ranking.                                             *)
(***************************************************************************)
\* the places (list, position) at which the lists of a call hold doc_id
PlacesOf(rankings, doc_id) ==
    {pl \in (DOMAIN rankings) \X (1..MaxListLen) :
        /\ pl[2] \in DOMAIN rankings[pl[1]]
        /\ rankings[pl[1]][pl[2]][1] = doc_id}

\* place a comes before place b when the lists are scanned one after the
\* other, each from its first entry
ScannedBefore(a, b) == a[1] < b[1] \/ (a[1] = b[1] /\ a[2] < b[2])

\* doc_id is met before other in that scan: some place of doc_id comes before
\* every place of other
MetBefore(rankings, doc_id, other) ==
    \E a \in PlacesOf(rankings, doc_id) :
        \A b \in PlacesOf(rankings, other) : ScannedBefore(a, b)

\* C27: in a fused ranking no document comes before a document of a higher
\* fused score, and of two documents of equal fused score the one that comes
\* first is the one met first when the lists are scanned in the order given
\* (the lexical list, then the semantic list).
C27_FusedRankingIsSortedAndStable ==
    \A c \in FusionCalls :
        LET rankings == fn_args[c]
            fused == fn_result[c]
        IN  \A i, j \in DOMAIN fused :
                i < j =>
                    /\ ~RatLess(fused[i][2], fused[j][2])
                    /\ fused[i][2] = fused[j][2] =>
                          MetBefore(rankings, fused[i][1], fused[j][1])

\* C27 witness: of two lists the first holds one document and the second
\* another; both have the fused score 1/(K+1), and the ranking has the
\* document of the first list first
C27_Witness ==
    /\ FusionCalls # {}
    /\ Len(fn_args[1]) = 2
    /\ Len(fn_args[1][1]) = 1
    /\ Len(fn_args[1][2]) = 1
    /\ fn_args[1][1][1][1] # fn_args[1][2][1][1]
    /\ Len(fn_result[1]) = 2
    /\ fn_result[1][1][2] = fn_result[1][2][2]
    /\ fn_result[1][1][1] = fn_args[1][1][1][1]

(***************************************************************************)
(* Properties of SemanticReranker.rerank.                                  *)
(***************************************************************************)
\* the response of the call is well formed: the request succeeded, the text
\* is a JSON object, and every entry has an integer index
WellFormedResponse ==
    /\ fn_args.resp.call = "ok"
    /\ fn_args.resp.fence # "open"
    /\ fn_args.resp.body.kind = "object"
    /\ "rankings" \in DOMAIN fn_args.resp.body
    /\ \A p \in DOMAIN fn_args.resp.body.rankings :
          /\ "index" \in DOMAIN fn_args.resp.body.rankings[p]
          /\ fn_args.resp.body.rankings[p].index.t = "int"

\* the entries that rerank reads: the first top_k of the judge's ranking
ReadEntries == Take(fn_args.resp.body.rankings, fn_args.top_k)

\* the positions of the entries read whose index is one of the first 15
\* candidates
KeptPositions ==
    {p \in DOMAIN ReadEntries :
        /\ ReadEntries[p].index.v >= 1
        /\ ReadEntries[p].index.v <= Min(RerankLimit, Len(fn_args.candidates))}

\* the j-th of these positions
KeptPosition(j) ==
    CHOOSE p \in KeptPositions :
        Cardinality({q \in KeptPositions : q <= p}) = j

\* C28: for a well-formed response and a candidate list that is not empty,
\* rerank returns one dict for each of the first top_k entries whose index
\* is in 1..min(15, number of candidates), in the order of the entries: the
\* candidate of that 1-based index with the entry's relevance and reason
\* attached.  So it returns at most top_k dicts, each made of one of the
\* first 15 candidates.
C28_RerankMapsJudgeEntries ==
    (fn_result # <<>> /\ fn_args.candidates # <<>> /\ WellFormedResponse) =>
        LET out == fn_result[1]
        IN  /\ Len(out) = Cardinality(KeptPositions)
            /\ Len(out) <= fn_args.top_k
            /\ \A j \in DOMAIN out :
                  LET r == ReadEntries[KeptPosition(j)]
                      candidate == fn_args.candidates[r.index.v]
                  IN  /\ r.index.v <= RerankLimit
                      /\ DOMAIN out[j] = DOMAIN candidate
                             \cup {"relevance_score", "reasoning"}
                      /\ \A f \in DOMAIN candidate : out[j][f] = candidate[f]
                      /\ out[j].relevance_score = r.relevance
                      /\ out[j].reasoning = r.reason

\* C28 witness: 16 candidates, top_k 2, and a judge that names candidate 16,
\* then candidate 15, then candidate 1: rerank has returned candidate 15 alone
C28_Witness ==
    /\ fn_result # <<>>
    /\ WellFormedResponse
    /\ Len(fn_args.candidates) = RerankLimit + 1
    /\ fn_args.top_k = 2
    /\ Len(fn_args.resp.body.rankings) = 3
    /\ fn_args.resp.body.rankings[1].index.v = RerankLimit + 1
    /\ fn_args.resp.body.rankings[2].index.v = RerankLimit
    /\ fn_args.resp.body.rankings[3].index.v = 1
    /\ Len(fn_result[1]) = 1
    /\ fn_result[1][1]._doc_idx = RerankLimit - 1

(***************************************************************************)
(* Properties of BM25.fit.                                                 *)
(***************************************************************************)
\* C29 (as claimed): the idf of a term that occurs in more than half of the
\* documents of the fitted corpus is negative.
C29_FrequentTermHasNegativeIdf ==
    \A term \in DOMAIN bm25.idf :
        2 * bm25.doc_freqs[term] > bm25.corpus_size => bm25.idf[term] < 0

\* C30: BM25.search never raises.  On an index whose average document length
\* is 0 (no document, or no document with a token) it returns the empty list
\* for every query; and whenever a document of the index holds a term of the
\* index, which is what leads _score_document to its division, the average
\* length is above 0.
C30_NoDivisionByZeroAverageLength ==
    /\ fn_args # <<>> => ~fn_args.raised
    /\ (fn_args # <<>> /\ bm25.avgdl[1] = 0) => fn_result = <<>>
    /\ \A i \in DOMAIN bm25.documents : \A term \in DOMAIN bm25.idf :
          term_freq(bm25.documents[i], term) > 0 => bm25.avgdl[1] > 0

\* C30 witness: two documents without token are indexed, and a query with
\* tokens has been searched
C30_Witness ==
    /\ fn_args # <<>>
    /\ bm25.corpus_size = 2
    /\ bm25.avgdl[1] = 0
    /\ tokenize(fn_args.query) # <<>>
    /\ ~fn_args.raised
    /\ fn_result = <<>>

=============================================================================
